---- MODULE Spec2Model ----
(***************************************************************************)
(* The spaced-repetition quiz engine of FrenchTutorPlus                    *)
(* (voice_livekit_agent/french_voice_tutor_plus.py): text utilities,       *)
(* Leitner scheduling, and the quiz session tools add_vocab, start_quiz,   *)
(* next_question and answer_quiz, with its pronunciation scoring, its      *)
(* state file and export snapshot, and the daily report srs_daily.py;      *)
(* ConversationMemory and unit_converter of universal_agent.py.            *)
(*                                                                         *)
(* Strings are sequences of characters.  A character is written as a       *)
(* short ASCII name: "a".."z", "A".."Z", digits, " ", and                  *)
(*   "e^"  the precomposed letter e-acute (U+00E9),                        *)
(*   "E^"  the precomposed letter E-acute (U+00C9),                        *)
(*   "^"   the combining acute accent (U+0301, category Mn),               *)
(*   "a~", "A~", "u~"  the precomposed letters a-, A- and u-grave,         *)
(*   "~"   the combining grave accent (U+0300, category Mn),               *)
(*   "i^^" the precomposed letter i-circumflex (U+00EE),                   *)
(*   "^^"  the combining circumflex accent (U+0302, category Mn),          *)
(*   "rq"  the right single quotation mark (U+2019).                       *)
(* Time is counted in ticks since an arbitrary origin; a second has        *)
(* TicksPerSec ticks (the sub-second resolution of datetime.now()).        *)
(***************************************************************************)
EXTENDS Integers, Sequences, FiniteSets, TLC

VARIABLES
    clock,            \* what datetime.now() returns, in ticks
    vocab,            \* self.vocab: sequence of item records
    quiz_queue,       \* self._quiz_queue: sequence of indices into vocab
    quiz_current,     \* self._quiz_current: an index, or None
    quiz_direction,   \* self._quiz_direction: a string
    graded,           \* number of answers graded so far in this run
    last,             \* the last tool called and the response it returned
    probe,            \* the last direct call of a pure function, with its result
    pron_target,      \* self._pron_target: a sentence, or None
    state_file,       \* the file that _save_progress writes
    export_file,      \* the snapshot file that _export_snapshot writes
    disk,             \* whether writing a file succeeds at the moment
    conversations,    \* ConversationMemory.conversations
    memory_file       \* the conversations in the file that _save writes

\* The state of the ConversationMemory object and of its file
memory == <<conversations, memory_file>>

tutor == <<clock, vocab, quiz_queue, quiz_current, quiz_direction, graded, last,
           pron_target, state_file, export_file, disk, memory>>
vars == <<clock, vocab, quiz_queue, quiz_current, quiz_direction, graded, last, probe,
          pron_target, state_file, export_file, disk, memory>>

-----------------------------------------------------------------------------
(* Bounds of the model                                                     *)

MaxVocab == 2
MaxGraded == 1
MaxSession == 3
MaxTokens == 3
TicksPerSec == 2
MaxCalls == 4

\* ConversationMemory(memory_file, max_turns = ...)
max_turns == 2

-----------------------------------------------------------------------------
(* Generic helpers                                                         *)

None == 0

\* self._pron_target before give_sentence: None, which the test
\* "not self._pron_target" does not tell from the empty string.
NoTarget == <<>>

Min(a, b) == IF a <= b THEN a ELSE b
Max(a, b) == IF a >= b THEN a ELSE b

Range(s) == {s[i] : i \in 1..Len(s)}

\* The injective sequences of length k over the set S.
RECURSIVE Arrangements(_, _)
Arrangements(S, k) ==
    IF k = 0 THEN {<<>>}
    ELSE UNION {{<<x>> \o r : r \in Arrangements(S \ {x}, k - 1)} : x \in S}

-----------------------------------------------------------------------------
(* Text utilities                                                          *)

Letters ==
    <<"a", "b", "c", "d", "e", "f", "g", "h", "i", "j", "k", "l", "m",
      "n", "o", "p", "q", "r", "s", "t", "u", "v", "w", "x", "y", "z">>
Capitals ==
    <<"A", "B", "C", "D", "E", "F", "G", "H", "I", "J", "K", "L", "M",
      "N", "O", "P", "Q", "R", "S", "T", "U", "V", "W", "X", "Y", "Z">>

AsciiLower == Range(Letters)
AsciiUpper == Range(Capitals)

\* The lower-case form of the upper-case characters.
ToLower ==
    [c \in AsciiUpper \cup {"E^", "A~"} |->
        CASE c = "E^" -> "e^"
          [] c = "A~" -> "a~"
          [] OTHER -> Letters[CHOOSE i \in 1..26 : Capitals[i] = c]]

\* str.lower() on one character.
LowerChar(c) == IF c \in DOMAIN ToLower THEN ToLower[c] ELSE c

lower(text) == [i \in 1..Len(text) |-> LowerChar(text[i])]

IsSpace(c) == c = " "

\* str.strip(): drop leading and trailing whitespace.
RECURSIVE lstrip(_)
lstrip(text) ==
    IF text # <<>> /\ IsSpace(Head(text)) THEN lstrip(Tail(text)) ELSE text

RECURSIVE rstrip(_)
rstrip(text) ==
    IF text # <<>> /\ IsSpace(text[Len(text)])
    THEN rstrip(SubSeq(text, 1, Len(text) - 1))
    ELSE text

strip(text) == rstrip(lstrip(text))

\* unicodedata.normalize("NFD", .) on one character: canonical decomposition.
NFD(c) ==
    CASE c = "e^" -> <<"e", "^">>
      [] c = "E^" -> <<"E", "^">>
      [] c = "a~" -> <<"a", "~">>
      [] c = "A~" -> <<"A", "~">>
      [] c = "u~" -> <<"u", "~">>
      [] c = "i^^" -> <<"i", "^^">>
      [] OTHER -> <<c>>

\* unicodedata.category(ch) = "Mn"
IsMn(c) == c \in {"^", "~", "^^"}

\* "".join(.): the concatenation of a sequence of strings, by halves.
RECURSIVE Flatten(_)
Flatten(ss) ==
    IF ss = <<>> THEN <<>>
    ELSE IF Len(ss) = 1 THEN ss[1]
    ELSE LET mid == Len(ss) \div 2
         IN  Flatten(SubSeq(ss, 1, mid)) \o Flatten(SubSeq(ss, mid + 1, Len(ss)))

_strip_accents(text) ==
    SelectSeq(Flatten([i \in 1..Len(text) |-> NFD(text[i])]), LAMBDA ch : ~IsMn(ch))

\* The character class of _WORD_RE: the ASCII letters, the accented letters
\* U+00C0..U+00FF (without the signs U+00D7 and U+00F7), apostrophe, hyphen.
WordChars ==
    AsciiLower \cup AsciiUpper \cup {"e^", "E^", "a~", "A~", "u~", "i^^", "'", "-"}

IsWordChar(c) == c \in WordChars

\* _WORD_RE.finditer: the maximal runs of word characters, left to right,
\* found by halves: the runs of the two halves, the last run of the first
\* half joined to the first run of the second when no gap separates them.
RECURSIVE FindRuns(_)
FindRuns(text) ==
    IF text = <<>> THEN <<>>
    ELSE IF Len(text) = 1 THEN (IF IsWordChar(text[1]) THEN <<text>> ELSE <<>>)
    ELSE LET mid == Len(text) \div 2
             l == FindRuns(SubSeq(text, 1, mid))
             r == FindRuns(SubSeq(text, mid + 1, Len(text)))
         IN  IF IsWordChar(text[mid]) /\ IsWordChar(text[mid + 1])
             THEN SubSeq(l, 1, Len(l) - 1) \o <<l[Len(l)] \o r[1]>> \o Tail(r)
             ELSE l \o r

_tokenize(text) ==
    LET runs == FindRuns(text)
    IN  [i \in 1..Len(runs) |-> lower(runs[i])]

\* A distance that compares the tokens position by position.
PositionalDistance(a, b) ==
    Cardinality({i \in 1..Min(Len(a), Len(b)) : a[i] # b[i]})
       + Max(Len(a), Len(b)) - Min(Len(a), Len(b))

\* The inner loop of _levenshtein for one token x of a: dp is the row being
\* rewritten in place (dp[j + 1] holds the source's dp[j]), prev the old dp[j - 1];
\* the row has len(b) + 1 entries, so that j runs up to Len(dp) - 1.
RECURSIVE LevInner(_, _, _, _, _)
LevInner(dp, prev, x, b, j) ==
    IF j >= Len(dp) THEN dp
    ELSE LET cur == dp[j + 1]
             sub == prev + (IF x = b[j] THEN 0 ELSE 1)
             new == Min(Min(dp[j + 1] + 1, dp[j] + 1), sub)
         IN  LevInner([dp EXCEPT ![j + 1] = new], cur, x, b, j + 1)

RECURSIVE LevOuter(_, _, _, _)
LevOuter(dp, a, b, i) ==
    IF i > Len(a) THEN dp
    ELSE LET prev == dp[1]
             dp0 == [dp EXCEPT ![1] = i]
         IN  LevOuter(LevInner(dp0, prev, a[i], b, 1), a, b, i + 1)

_levenshtein(a, b) ==
    LET dp == LevOuter([j \in 1..(Len(b) + 1) |-> j - 1], a, b, 1)
    IN  dp[Len(dp)]

-----------------------------------------------------------------------------
(* Time and timestamps                                                     *)

SecPerDay == 24 * 3600
DayTicks == SecPerDay * TicksPerSec

\* timedelta(days = d)
timedelta(d) == d * DayTicks

\* datetime.isoformat(timespec = "seconds"): the timestamp string.  A
\* well-formed string is modelled by the whole second it spells out (the
\* sub-second part of the datetime is not written); Malformed is a string
\* that datetime.fromisoformat cannot parse.
isoformat(t) == t \div TicksPerSec

Malformed == -1

\* datetime.fromisoformat on a well-formed timestamp string.
fromisoformat(s) == s * TicksPerSec

\* datetime(1970, 1, 1): the origin of the tick count.
Epoch == 0

-----------------------------------------------------------------------------
(* Spaced repetition scheduling (Leitner 1..5)                             *)

BOX_DELAYS_DAYS == (1 :> 1) @@ (2 :> 2) @@ (3 :> 4) @@ (4 :> 7) @@ (5 :> 15)

\* A lookup that forgets the clamp: BOX_DELAYS_DAYS.get(box, 1)
DelayDaysUnclamped(box) ==
    IF box \in DOMAIN BOX_DELAYS_DAYS THEN BOX_DELAYS_DAYS[box] ELSE 1

\* BOX_DELAYS_DAYS.get(max(1, min(5, box)), 1)
DelayDays(box) ==
    LET k == Max(1, Min(5, box))
    IN  IF k \in DOMAIN BOX_DELAYS_DAYS THEN BOX_DELAYS_DAYS[k] ELSE 1

_next_due(box, now) == isoformat(now + timedelta(DelayDays(box)))

\* A promotion that forgets the ceiling.
PromoteBoxUnclamped(box) == box + 1

\* answer_quiz, accepted answer: it["box"] = min(5, it.get("box", 1) + 1)
PromoteBox(box) == Min(5, box + 1)

\* A rejection that moves the item down one box instead of back to the first.
ResetBoxDemote(box) == Max(1, box - 1)

\* answer_quiz, rejected answer: it["box"] = 1
ResetBox(box) == 1

\* A threshold of 0.33, which a third no longer passes.
AcceptsBelowThird(dist, max_len) == 100 * dist <= 33 * max_len

\* answer_quiz: ok = (dist / max_len) <= 0.34.  dist and max_len are small
\* integers, so the float comparison agrees with the exact one on 34/100.
Accepts(dist, max_len) == 100 * dist <= 34 * max_len

-----------------------------------------------------------------------------
(* Inputs of the tool calls                                                *)

W_cafe == <<" ", "l", "e", " ", "c", "a", "f", "e^", " ", "n", "o", "i", "r">>
T_cafe == <<"C", "o", "f", "f", "e", "e", " ">>
W_blank == <<" ">>
T_num == <<"4", "2">>
W_chat == <<"C", "h", "a", "t">>
T_cat == <<"c", "a", "t">>

\* (word, translation) arguments of add_vocab
VocabInputs == {<<W_cafe, T_cafe>>, <<W_blank, T_num>>}

A_empty == <<>>
A_digits == <<" ", "4", "2">>
A_coffee == <<"c", "o", "f", "f", "e", "e">>
A_bleu == <<"L", "e", " ", "c", "a", "f", "e^", " ", "b", "l", "e", "u">>

\* user_answer arguments of answer_quiz
Answers == {A_empty, A_digits, A_coffee, A_bleu}

D_en2fr == <<"e", "n", "2", "f", "r">>
D_FR2EN == <<" ", "F", "R", "2", "E", "N">>
D_empty == <<>>

\* direction arguments of start_quiz
Directions == {D_FR2EN, D_empty}

\* count arguments of start_quiz
Counts == {-1, 0, MaxVocab, MaxVocab + 1}

-----------------------------------------------------------------------------
(* The state file read by _load_progress                                   *)

\* The run starts 20 days after the origin of the tick count.
StartClock == 20 * DayTicks

\* An item as an earlier run saved it: created at some time, then answered
\* correctly box - 1 times in the en2fr direction, the last time at clock
\* reading s.
SavedItem(p, box, s) ==
    [word |-> strip(p[1]), translation |-> strip(p[2]), example |-> <<>>,
     box |-> box, next_due |-> _next_due(box, s),
     history |-> [i \in 1..(box - 1) |->
                    [t |-> isoformat(s), ok |-> TRUE, input |-> strip(p[1])]]]

\* The vocabularies of the state files the run may start from.
SavedFiles ==
    { <<>>,
      <<SavedItem(<<W_cafe, T_cafe>>, 5, StartClock - timedelta(15) + 1),
        SavedItem(<<W_chat, T_cat>>, 2, StartClock - timedelta(1)),
        SavedItem(<<W_cafe, T_cafe>>, 1, StartClock + 1)>> }

\* The clock readings at which tools are called: the start of the run, a
\* moment into a second, and a later one on a whole second a day after.
FirstReading == StartClock + 1
ClockReadings == {FirstReading, StartClock + timedelta(1)}

-----------------------------------------------------------------------------
(* Responses: a response is a sequence of lines [kind, text]               *)

Line(kind, text) == [kind |-> kind, text |-> text]

Returned(op, resp) == [op |-> op, resp |-> resp]

\* The same for start_quiz, with the count it was called with.
Started(count, resp) == [op |-> "start_quiz", count |-> count, resp |-> resp]

NoProbe == [fn |-> "none", args |-> <<>>, out |-> 0]

-----------------------------------------------------------------------------------------------------------------------------------------------------
(* Persistence: the state file and the export snapshot                     *)
(*                                                                         *)
(* A file is a record.  One that was written whole and has not been        *)
(* overtaken by the vocabulary in memory is kept as "synced": what it      *)
(* holds is then read off the vocabulary (StateFileContent,                *)
(* ExportFileContent); any other file carries its content.                 *)

\* A file with its content written out.
File(content) == [readable |-> TRUE, synced |-> FALSE, at |-> 0, content |-> content]

\* What is left of a file when the write broke off after open() had
\* emptied it.
Garbled == [readable |-> FALSE, synced |-> FALSE, at |-> 0, content |-> <<>>]

\* A file written whole from the vocabulary in memory at clock reading at.
InSync(at) == [readable |-> TRUE, synced |-> TRUE, at |-> at, content |-> <<>>]

\* No file of that name yet: read as an empty one.
NoFile == File(<<>>)

\* The disk lets a write through ("ok"), refuses to open the file
\* ("denied") or fails once the file is open ("full").
DiskStates == {"ok", "denied", "full"}

\* open(path, "w") followed by json.dump or a csv writer: what a file that
\* was old holds afterwards.
Written(old, content) ==
    CASE disk = "ok" -> File(content)
      [] disk = "denied" -> old
      [] disk = "full" -> Garbled

\* "vocab" of the data in the state file.
StateFileContent == IF state_file.synced THEN vocab ELSE state_file.content

\* _save_progress, called once self.vocab holds the new vocabulary: the
\* state file afterwards.  The write is inside try/except Exception/pass;
\* level, mode and topic are not part of the quiz.
_save_progress ==
    CASE disk = "ok" -> InSync(0)
      [] disk = "denied" -> IF state_file.synced THEN File(vocab) ELSE state_file
      [] disk = "full" -> Garbled

\* The cell of overdue_days that stands for the empty string.
NoDays == -1

\* _export_snapshot: the row of an item, with (now - due).days for an
\* overdue item, 0 for one that is not, "" when next_due does not parse.
ExportRow(it, now) ==
    [word |-> it.word, translation |-> it.translation, example |-> it.example,
     box |-> it.box, next_due |-> it.next_due,
     overdue_days |-> IF it.next_due = Malformed THEN NoDays
                      ELSE IF now > fromisoformat(it.next_due)
                           THEN (now - fromisoformat(it.next_due)) \div DayTicks
                           ELSE 0]

\* The rows of the snapshot file.
ExportFileContent ==
    IF export_file.synced
    THEN [i \in 1..Len(vocab) |-> ExportRow(vocab[i], export_file.at)]
    ELSE export_file.content

\* _maybe_auto_export with SRS_AUTO_EXPORT at its default "true" and the
\* format at its default "csv", called once self.vocab holds the new
\* vocabulary: the snapshot file after _export_snapshot at clock reading now.
_export_snapshot(now) ==
    CASE disk = "ok" -> InSync(now)
      [] disk = "denied" -> IF export_file.synced THEN File(ExportFileContent)
                            ELSE export_file
      [] disk = "full" -> Garbled

-----
(* Initial state: __init__ followed by _load_progress                      *)

Init ==
    /\ clock = FirstReading
    /\ vocab \in SavedFiles
    /\ quiz_queue = <<>>
    /\ quiz_current = None
    /\ quiz_direction = D_en2fr
    /\ graded = 0
    /\ last = Returned("init", <<>>)
    /\ probe = NoProbe
    /\ pron_target = NoTarget
    /\ state_file = InSync(0)
    /\ export_file = NoFile
    /\ disk = "ok"
    /\ conversations = <<>>
    /\ memory_file = NoFile

-----------------------------------------------------------------------------
(* The spaced repetition quiz                                              *)

\* _due_indices: datetime.fromisoformat(it.get("next_due", ...)), with the
\* epoch standing in for a string that does not parse.
ParseDue(nd) == IF nd = Malformed THEN Epoch ELSE fromisoformat(nd)

\* _due_indices: the indices, in order, of the items with due <= now.
_due_indices(v, now) ==
    SelectSeq([i \in 1..Len(v) |-> i], LAMBDA i : ParseDue(v[i].next_due) <= now)

\* sorted(enumerate(self.vocab), key = box): a stable sort of the indices
\* by ascending box; InsertByBox puts i after the entries with box <= its own.
RECURSIVE InsertByBox(_, _, _)
InsertByBox(v, done, i) ==
    IF done = <<>> THEN <<i>>
    ELSE IF v[done[Len(done)]].box <= v[i].box THEN Append(done, i)
    ELSE Append(InsertByBox(v, SubSeq(done, 1, Len(done) - 1), i), done[Len(done)])

RECURSIVE SortedByBox(_, _)
SortedByBox(v, n) ==
    IF n = 0 THEN <<>> ELSE InsertByBox(v, SortedByBox(v, n - 1), n)

\* Candidates that ignore the due dates.
CandidatesAll(v, now) == SortedByBox(v, Len(v))

\* start_quiz: the candidates, the due items or else every item.
Candidates(v, now) ==
    LET due == _due_indices(v, now)
    IN  IF due = <<>> THEN SortedByBox(v, Len(v)) ELSE due

\* A slice without the floor of one question: due[: max(0, min(count, len(due)))]
QuizLengthNoFloor(count, n) == Max(0, Min(count, n))

\* start_quiz: the length of due[: max(1, min(count, len(due)))]
QuizLength(count, n) == Min(n, Max(1, Min(count, n)))

\* A draw with replacement, random.choices(due, k = ...): any sequence of
\* candidates of the sliced length.
SampledWithRepeats(cand, count) ==
    [1..QuizLength(count, Len(cand)) -> Range(cand)]

\* random.shuffle(due) followed by the slice: any arrangement of the
\* candidates of the sliced length.
ShuffledSlices(cand, count) ==
    Arrangements(Range(cand), QuizLength(count, Len(cand)))

\* start_quiz: direction.lower().strip() if direction else "en2fr"
NormalDirection(direction) ==
    IF direction # <<>> THEN strip(lower(direction)) ELSE D_en2fr

\* A next_question whose prompt shows the side that is asked for.
NextQuestionSameSide(queue, v, direction) ==
    IF queue = <<>>
    THEN [queue |-> queue, current |-> None, line |-> Line("finished", <<>>)]
    ELSE LET it == v[queue[1]]
         IN  [queue |-> Tail(queue), current |-> queue[1],
              line |-> IF direction = D_en2fr
                       THEN Line("to_french", it.word)
                       ELSE Line("to_english", it.translation)]

\* A next_question that reads the front of the queue and leaves it there:
\* queue[0] for queue.pop(0).
NextQuestionPeek(queue, v, direction) ==
    IF queue = <<>>
    THEN [queue |-> queue, current |-> None, line |-> Line("finished", <<>>)]
    ELSE LET it == v[queue[1]]
         IN  [queue |-> queue, current |-> queue[1],
              line |-> IF direction = D_en2fr
                       THEN Line("to_french", it.translation)
                       ELSE Line("to_english", it.word)]

\* A next_question that takes the back of the queue: pop() for pop(0).
NextQuestionFromBack(queue, v, direction) ==
    IF queue = <<>>
    THEN [queue |-> queue, current |-> None, line |-> Line("finished", <<>>)]
    ELSE LET it == v[queue[Len(queue)]]
         IN  [queue |-> SubSeq(queue, 1, Len(queue) - 1), current |-> queue[Len(queue)],
              line |-> IF direction = D_en2fr
                       THEN Line("to_french", it.translation)
                       ELSE Line("to_english", it.word)]

\* next_question, as a function of the queue it finds: the new queue, the
\* new current question and the line returned.
NextQuestion(queue, v, direction) ==
    IF queue = <<>>
    THEN [queue |-> queue, current |-> None, line |-> Line("finished", <<>>)]
    ELSE LET it == v[Head(queue)]
         IN  [queue |-> Tail(queue), current |-> Head(queue),
              line |-> IF direction = D_en2fr
                       THEN Line("to_french", it.translation)
                       ELSE Line("to_english", it.word)]

\* answer_quiz: the gold string shown and compared, by direction.
ShowGold(it, direction) == IF direction = D_en2fr THEN it.word ELSE it.translation

\* answer_quiz: the verdict on user_answer for item it.
Grade(it, direction, user_answer) ==
    LET ans == strip(lower(_strip_accents(user_answer)))
        gold == lower(_strip_accents(ShowGold(it, direction)))
        dist == _levenshtein(_tokenize(gold), _tokenize(ans))
        max_len == Max(1, Len(_tokenize(gold)))
    IN  Accepts(dist, max_len)

\* A grading that computes next_due before it moves the box.
GradedStaleDue(it, ok, now, user_answer) ==
    LET box == IF ok THEN PromoteBox(it.box) ELSE ResetBox(it.box)
    IN  [it EXCEPT !.box = box,
                   !.history = Append(@, [t |-> isoformat(now), ok |-> ok,
                                          input |-> user_answer]),
                   !.next_due = _next_due(it.box, now)]

\* A grading that keeps only the latest entry of the history.
GradedLatestOnly(it, ok, now, user_answer) ==
    LET box == IF ok THEN PromoteBox(it.box) ELSE ResetBox(it.box)
    IN  [it EXCEPT !.box = box,
                   !.history = <<[t |-> isoformat(now), ok |-> ok,
                                  input |-> user_answer]>>,
                   !.next_due = _next_due(box, now)]

\* A grading that keeps the answer given as the example of the item.
GradedKeepsExample(it, ok, now, user_answer) ==
    LET box == IF ok THEN PromoteBox(it.box) ELSE ResetBox(it.box)
    IN  [it EXCEPT !.box = box,
                   !.example = user_answer,
                   !.history = Append(@, [t |-> isoformat(now), ok |-> ok,
                                          input |-> user_answer]),
                   !.next_due = _next_due(box, now)]

\* answer_quiz: the item after grading at clock reading now.
Graded(it, ok, now, user_answer) ==
    LET box == IF ok THEN PromoteBox(it.box) ELSE ResetBox(it.box)
    IN  [it EXCEPT !.box = box,
                   !.history = Append(@, [t |-> isoformat(now), ok |-> ok,
                                          input |-> user_answer]),
                   !.next_due = _next_due(box, now)]

-----------------------------------------------------------------------------
(* The tools                                                               *)

\* Time passes between two tool calls.
Tick ==
    /\ \E t \in ClockReadings : t > clock /\ clock' = t
    /\ last' = Returned("tick", <<>>)
    /\ UNCHANGED <<vocab, state_file, export_file, quiz_queue, quiz_current, quiz_direction, graded, probe, disk, memory, pron_target>>

add_vocab(word, translation) ==
    LET item == [word |-> strip(word), translation |-> strip(translation),
                 example |-> strip(<<>>), box |-> 1,
                 next_due |-> _next_due(1, clock), history |-> <<>>]
    IN  /\ Len(vocab) < MaxVocab
        /\ vocab' = Append(vocab, item)
        /\ state_file' = _save_progress
        /\ export_file' = _export_snapshot(clock)
        /\ last' = Returned("add_vocab", <<Line("added", item.word \o item.translation)>>)
        /\ UNCHANGED <<clock, quiz_queue, quiz_current, quiz_direction, graded, probe, disk, memory, pron_target>>

\* A start_quiz that stores the direction before it looks at the vocabulary.
start_quiz_direction_first(count, direction) ==
    IF vocab = <<>>
    THEN /\ last' = Started(count, <<Line("no_vocabulary", <<>>)>>)
         /\ quiz_direction' = NormalDirection(direction)
         /\ UNCHANGED <<clock, vocab, state_file, export_file, quiz_queue, quiz_current, graded, probe, disk, memory, pron_target>>
    ELSE /\ quiz_direction' = NormalDirection(direction)
         /\ \E due \in ShuffledSlices(Candidates(vocab, clock), count) :
               LET nq == NextQuestion(due, vocab, quiz_direction')
               IN  /\ quiz_queue' = nq.queue
                   /\ quiz_current' = nq.current
                   /\ last' = Started(count, <<nq.line>>)
         /\ UNCHANGED <<clock, vocab, state_file, export_file, graded, probe, disk, memory, pron_target>>

\* A start_quiz that puts the new selection behind the queue it finds.
start_quiz_extends(count, direction) ==
    IF vocab = <<>>
    THEN /\ last' = Started(count, <<Line("no_vocabulary", <<>>)>>)
         /\ UNCHANGED <<clock, vocab, state_file, export_file, quiz_queue, quiz_current, quiz_direction,
                        graded, probe, disk, memory, pron_target>>
    ELSE /\ quiz_direction' = NormalDirection(direction)
         /\ \E due \in ShuffledSlices(Candidates(vocab, clock), count) :
               LET nq == NextQuestion(quiz_queue \o due, vocab, quiz_direction')
               IN  /\ quiz_queue' = nq.queue
                   /\ quiz_current' = nq.current
                   /\ last' = Started(count, <<nq.line>>)
         /\ UNCHANGED <<clock, vocab, state_file, export_file, graded, probe, disk, memory, pron_target>>

start_quiz(count, direction) ==
    IF vocab = <<>>
    THEN /\ last' = Started(count, <<Line("no_vocabulary", <<>>)>>)
         /\ UNCHANGED <<clock, vocab, state_file, export_file, quiz_queue, quiz_current, quiz_direction,
                        graded, probe, disk, memory, pron_target>>
    ELSE /\ quiz_direction' = NormalDirection(direction)
         /\ \E due \in ShuffledSlices(Candidates(vocab, clock), count) :
               LET nq == NextQuestion(due, vocab, quiz_direction')
               IN  /\ quiz_queue' = nq.queue
                   /\ quiz_current' = nq.current
                   /\ last' = Started(count, <<nq.line>>)
         /\ UNCHANGED <<clock, vocab, state_file, export_file, graded, probe, disk, memory, pron_target>>

\* A next_question that puts the question it skips back at the end of the
\* queue.
next_question_requeues ==
    LET nq == NextQuestion(IF quiz_current = None THEN quiz_queue
                           ELSE Append(quiz_queue, quiz_current),
                           vocab, quiz_direction)
    IN  /\ quiz_queue' = nq.queue
        /\ quiz_current' = nq.current
        /\ last' = Returned("next_question", <<nq.line>>)
        /\ UNCHANGED <<clock, vocab, state_file, export_file, quiz_direction, graded, probe, disk, memory, pron_target>>

next_question ==
    LET nq == NextQuestion(quiz_queue, vocab, quiz_direction)
    IN  /\ quiz_queue' = nq.queue
        /\ quiz_current' = nq.current
        /\ last' = Returned("next_question", <<nq.line>>)
        /\ UNCHANGED <<clock, vocab, state_file, export_file, quiz_direction, graded, probe, disk, memory, pron_target>>

\* An answer_quiz that asks the same question again after a rejected answer.
answer_quiz_retry(user_answer) ==
    IF quiz_current = None
    THEN /\ last' = Returned("answer_quiz", <<Line("no_question", <<>>)>>)
         /\ UNCHANGED <<clock, vocab, state_file, export_file, quiz_queue, quiz_current, quiz_direction,
                        graded, probe, disk, memory, pron_target>>
    ELSE LET it == vocab[quiz_current]
             ok == Grade(it, quiz_direction, user_answer)
             nq == IF ok
                   THEN NextQuestion(quiz_queue, vocab, quiz_direction)
                   ELSE NextQuestion(<<quiz_current>> \o quiz_queue, vocab, quiz_direction)
         IN  /\ vocab' = [vocab EXCEPT ![quiz_current] =
                             Graded(it, ok, clock, user_answer)]
             /\ state_file' = _save_progress
             /\ export_file' = _export_snapshot(clock)
             /\ graded' = graded + 1
             /\ quiz_queue' = nq.queue
             /\ quiz_current' = nq.current
             /\ last' = Returned("answer_quiz",
                                 <<Line(IF ok THEN "well_done" ELSE "almost",
                                        ShowGold(it, quiz_direction)),
                                   nq.line>>)
             /\ UNCHANGED <<clock, quiz_direction, probe, disk, memory, pron_target>>

\* An answer_quiz that falls back to the default direction when no question
\* is outstanding.
answer_quiz_resets_direction(user_answer) ==
    IF quiz_current = None
    THEN /\ last' = Returned("answer_quiz", <<Line("no_question", <<>>)>>)
         /\ quiz_direction' = D_en2fr
         /\ UNCHANGED <<clock, vocab, state_file, export_file, quiz_queue, quiz_current, graded, probe, disk, memory, pron_target>>
    ELSE LET it == vocab[quiz_current]
             ok == Grade(it, quiz_direction, user_answer)
             nq == NextQuestion(quiz_queue, vocab, quiz_direction)
         IN  /\ vocab' = [vocab EXCEPT ![quiz_current] =
                             Graded(it, ok, clock, user_answer)]
             /\ state_file' = _save_progress
             /\ export_file' = _export_snapshot(clock)
             /\ graded' = graded + 1
             /\ quiz_queue' = nq.queue
             /\ quiz_current' = nq.current
             /\ last' = Returned("answer_quiz",
                                 <<Line(IF ok THEN "well_done" ELSE "almost",
                                        ShowGold(it, quiz_direction)),
                                   nq.line>>)
             /\ UNCHANGED <<clock, quiz_direction, probe, disk, memory, pron_target>>

\* An answer_quiz whose save lets the error of a failed write through: the
\* item is graded, the next question is never served.
answer_quiz_unguarded(user_answer) ==
    IF quiz_current = None
    THEN /\ last' = Returned("answer_quiz", <<Line("no_question", <<>>)>>)
         /\ UNCHANGED <<clock, vocab, state_file, export_file, quiz_queue, quiz_current, quiz_direction,
                        graded, probe, disk, memory, pron_target>>
    ELSE LET it == vocab[quiz_current]
             ok == Grade(it, quiz_direction, user_answer)
             nq == IF disk = "ok"
                   THEN NextQuestion(quiz_queue, vocab, quiz_direction)
                   ELSE [queue |-> quiz_queue, current |-> quiz_current,
                         line |-> Line("raised", <<>>)]
         IN  /\ vocab' = [vocab EXCEPT ![quiz_current] =
                             Graded(it, ok, clock, user_answer)]
             /\ state_file' = _save_progress
             /\ export_file' = IF disk = "ok" THEN _export_snapshot(clock)
                               ELSE IF export_file.synced THEN File(ExportFileContent)
                               ELSE export_file
             /\ graded' = graded + 1
             /\ quiz_queue' = nq.queue
             /\ quiz_current' = nq.current
             /\ last' = Returned("answer_quiz",
                                 IF disk = "ok"
                                 THEN <<Line(IF ok THEN "well_done" ELSE "almost",
                                             ShowGold(it, quiz_direction)),
                                        nq.line>>
                                 ELSE <<nq.line>>)
             /\ UNCHANGED <<clock, quiz_direction, probe, disk, memory, pron_target>>

answer_quiz(user_answer) ==
    IF quiz_current = None
    THEN /\ last' = Returned("answer_quiz", <<Line("no_question", <<>>)>>)
         /\ UNCHANGED <<clock, vocab, state_file, export_file, quiz_queue, quiz_current, quiz_direction,
                        graded, probe, disk, memory, pron_target>>
    ELSE LET it == vocab[quiz_current]
             ok == Grade(it, quiz_direction, user_answer)
             nq == NextQuestion(quiz_queue, vocab, quiz_direction)
         IN  /\ vocab' = [vocab EXCEPT ![quiz_current] =
                             Graded(it, ok, clock, user_answer)]
             /\ state_file' = _save_progress
             /\ export_file' = _export_snapshot(clock)
             /\ graded' = graded + 1
             /\ quiz_queue' = nq.queue
             /\ quiz_current' = nq.current
             /\ last' = Returned("answer_quiz",
                                 <<Line(IF ok THEN "well_done" ELSE "almost",
                                        ShowGold(it, quiz_direction)),
                                   nq.line>>)
             /\ UNCHANGED <<clock, quiz_direction, probe, disk, memory, pron_target>>

Next ==
    \/ Tick
    \/ \E p \in VocabInputs : add_vocab(p[1], p[2])
    \/ \E count \in Counts, direction \in Directions : start_quiz(count, direction)
    \/ next_question
    \/ \E user_answer \in Answers :
          /\ quiz_current # None => graded < MaxGraded
          /\ answer_quiz(user_answer)

Spec == Init /\ [][Next]_vars

-----------------------------------------------------------------------------
(* Direct calls of _next_due, on boxes and clock readings of every kind    *)

BoxInputs == (-2)..9

NowInputs == {StartClock + k : k \in 0..(4 * TicksPerSec)}

next_due_call(box, now) ==
    /\ probe' = [fn |-> "_next_due", args |-> <<box, now>>, out |-> _next_due(box, now)]
    /\ UNCHANGED tutor

NextDueCalls == \E box \in BoxInputs, now \in NowInputs : next_due_call(box, now)

SpecNextDue == Init /\ [][NextDueCalls]_vars

-----------------------------------------------------------------------------
(* Direct calls of _levenshtein, on token lists of up to MaxTokens tokens  *)

TokenAlphabet == {<<"l", "e">>, <<"c", "a", "f", "e">>}

RECURSIVE TokenLists(_)
TokenLists(n) ==
    IF n = 0 THEN {<<>>}
    ELSE LET shorter == TokenLists(n - 1)
         IN  shorter \cup {Append(ts, t) : ts \in shorter, t \in TokenAlphabet}

levenshtein_call(a, b) ==
    /\ probe' = [fn |-> "_levenshtein", args |-> <<a, b>>, out |-> _levenshtein(a, b)]
    /\ UNCHANGED tutor

LevenshteinCalls ==
    \E a \in TokenLists(MaxTokens), b \in TokenLists(MaxTokens) : levenshtein_call(a, b)

SpecLevenshtein == Init /\ [][LevenshteinCalls]_vars

-----------------------------------------------------------------------------
(* Whole quiz sessions: up to MaxSession answers in one run                *)

SessionAnswers == {A_empty, A_bleu}

SessionNext ==
    \/ Tick
    \/ \E count \in Counts : start_quiz(count, D_empty)
    \/ next_question
    \/ \E user_answer \in SessionAnswers :
          /\ quiz_current # None => graded < MaxSession
          /\ answer_quiz(user_answer)

SpecSession == Init /\ [][SessionNext]_vars

-----------------------------------------------------------------------------
(* Pronunciation practice: give_sentence and check_pronunciation           *)

\* Bonjour, je voudrais un cafe s'il vous plait.
P_cafe_1 ==
    <<"B", "o", "n", "j", "o", "u", "r", ",", " ", "j", "e", " ", "v", "o",
      "u", "d", "r", "a", "i", "s", " ", "u", "n", " ", "c", "a", "f",
      "e^", " ", "s", "rq", "i", "l", " ", "v", "o", "u", "s", " ", "p",
      "l", "a", "i^^", "t", ".">>

\* C'est a emporter ou sur place ?
P_cafe_2 ==
    <<"C", "rq", "e", "s", "t", " ", "a~", " ", "e", "m", "p", "o", "r",
      "t", "e", "r", " ", "o", "u", " ", "s", "u", "r", " ", "p", "l", "a",
      "c", "e", " ", "?">>

\* Vous prenez la carte ?
P_cafe_3 ==
    <<"V", "o", "u", "s", " ", "p", "r", "e", "n", "e", "z", " ", "l", "a",
      " ", "c", "a", "r", "t", "e", " ", "?">>

\* Ou est la gare la plus proche ?
P_travel_1 ==
    <<"O", "u~", " ", "e", "s", "t", " ", "l", "a", " ", "g", "a", "r",
      "e", " ", "l", "a", " ", "p", "l", "u", "s", " ", "p", "r", "o", "c",
      "h", "e", " ", "?">>

\* A quelle heure part le prochain train pour Lyon ?
P_travel_2 ==
    <<"A~", " ", "q", "u", "e", "l", "l", "e", " ", "h", "e", "u", "r",
      "e", " ", "p", "a", "r", "t", " ", "l", "e", " ", "p", "r", "o", "c",
      "h", "a", "i", "n", " ", "t", "r", "a", "i", "n", " ", "p", "o", "u",
      "r", " ", "L", "y", "o", "n", " ", "?">>

\* Je cherche un billet aller-retour.
P_travel_3 ==
    <<"J", "e", " ", "c", "h", "e", "r", "c", "h", "e", " ", "u", "n", " ",
      "b", "i", "l", "l", "e", "t", " ", "a", "l", "l", "e", "r", "-", "r",
      "e", "t", "o", "u", "r", ".">>

\* J'ai une reservation au nom de Sam.
P_hotel_1 ==
    <<"J", "rq", "a", "i", " ", "u", "n", "e", " ", "r", "e^", "s", "e",
      "r", "v", "a", "t", "i", "o", "n", " ", "a", "u", " ", "n", "o", "m",
      " ", "d", "e", " ", "S", "a", "m", ".">>

\* A partir de quelle heure est le check-in ?
P_hotel_2 ==
    <<"A~", " ", "p", "a", "r", "t", "i", "r", " ", "d", "e", " ", "q",
      "u", "e", "l", "l", "e", " ", "h", "e", "u", "r", "e", " ", "e", "s",
      "t", " ", "l", "e", " ", "c", "h", "e", "c", "k", "-", "i", "n", " ",
      "?">>

\* Est-ce que le petit dejeuner est inclus ?
P_hotel_3 ==
    <<"E", "s", "t", "-", "c", "e", " ", "q", "u", "e", " ", "l", "e", " ",
      "p", "e", "t", "i", "t", " ", "d", "e^", "j", "e", "u", "n", "e",
      "r", " ", "e", "s", "t", " ", "i", "n", "c", "l", "u", "s", " ", "?">>

K_cafe == <<"c", "a", "f", "e">>
K_travel == <<"t", "r", "a", "v", "e", "l">>
K_hotel == <<"h", "o", "t", "e", "l">>

\* PHRASES, with the French sentence of each pair (give_sentence drops the
\* English one).
PHRASES ==
    (K_cafe :> <<P_cafe_1, P_cafe_2, P_cafe_3>>)
    @@ (K_travel :> <<P_travel_1, P_travel_2, P_travel_3>>)
    @@ (K_hotel :> <<P_hotel_1, P_hotel_2, P_hotel_3>>)

\* list(PHRASES.keys())
ROLEPLAY_TOPICS == DOMAIN PHRASES

Sentences == UNION {Range(PHRASES[k]) : k \in DOMAIN PHRASES}

\* self.topic, "cafe" from the constructor on
SelfTopic == K_cafe

\* A float that is the quotient of two small integers.
Ratio(n, d) == [num |-> n, den |-> d]

\* w <= n / d
AtMost(w, n, d) == w.num * d <= n * w.den

\* A word error rate over the tokens as written, accents kept.
WerAccented(ref, hyp) ==
    LET r == _tokenize(ref)
        h == _tokenize(hyp)
    IN  IF r = <<>> THEN Ratio(0, 1) ELSE Ratio(_levenshtein(r, h), Len(r))

\* A word error rate over the length of the hypothesis.
WerOverHypothesis(ref, hyp) ==
    LET r == _tokenize(_strip_accents(ref))
        h == _tokenize(_strip_accents(hyp))
    IN  IF r = <<>> \/ h = <<>> THEN Ratio(0, 1) ELSE Ratio(_levenshtein(r, h), Len(h))

_wer(ref, hyp) ==
    LET r == _tokenize(_strip_accents(ref))
        h == _tokenize(_strip_accents(hyp))
    IN  IF r = <<>> THEN Ratio(0, 1) ELSE Ratio(_levenshtein(r, h), Len(r))

\* zip(r_tokens, h_tokens), filtered: the pairs equal without their accents
\* and different with them.
_accent_mismatches(ref, hyp) ==
    LET r_tokens == _tokenize(ref)
        h_tokens == _tokenize(hyp)
        n == Min(Len(r_tokens), Len(h_tokens))
    IN  SelectSeq([i \in 1..n |-> <<r_tokens[i], h_tokens[i]>>],
                  LAMBDA p : _strip_accents(p[1]) = _strip_accents(p[2]) /\ p[1] # p[2])

\* Tiers with the bounds left to the tier above.
LevelExclusive(w) ==
    IF ~AtMost(Ratio(1, 5), w.num, w.den) THEN "excellent"
    ELSE IF ~AtMost(Ratio(7, 20), w.num, w.den) THEN "bien"
    ELSE IF ~AtMost(Ratio(1, 2), w.num, w.den) THEN "correct"
    ELSE "difficile"

\* check_pronunciation: the tier of a word error rate, 0.2 / 0.35 / 0.5.
Level(w) ==
    IF AtMost(w, 1, 5) THEN "excellent"
    ELSE IF AtMost(w, 7, 20) THEN "bien"
    ELSE IF AtMost(w, 1, 2) THEN "correct"
    ELSE "difficile"

\* int(max(0, 100 * (1 - w))): the product is truncated towards zero.  It is
\* computed in binary floating point: for w = 4/5 the difference 1 - w is
\* 0.19999999999999996 and the product 19.999999999999996, one below the
\* exact 20 after truncation; for the other quotients with a denominator of
\* at most 9 the truncated product is the exact floor.
Score(w) ==
    IF w.num >= w.den THEN 0
    ELSE LET exact == (100 * (w.den - w.num)) \div w.den
         IN  IF 5 * w.num = 4 * w.den THEN exact - 1 ELSE exact

\* f"{w:.2f}", in hundredths: the nearest one, the even one on a tie (the
\* ties of these quotients, the odd eighths, are exact in binary).
Hundredths(w) ==
    LET q == (100 * w.num) \div w.den
        r2 == 2 * ((100 * w.num) % w.den)
    IN  IF r2 < w.den THEN q
        ELSE IF r2 > w.den THEN q + 1
        ELSE IF q % 2 = 0 THEN q ELSE q + 1

\* t in target
Contains(text, sub) ==
    \E i \in 1..(Len(text) - Len(sub) + 1) : SubSeq(text, i, i + Len(sub) - 1) = sub

LiaisonWords ==
    {<<"e", "s", "t", "-", "c", "e", " ", "q", "u", "e">>, <<"v", "o", "u", "s">>,
     <<"u", "n">>, <<"u", "n", "e">>}

\* check_pronunciation: the tips, in the order they are appended.
Tips(target, heard) ==
    LET mism == _accent_mismatches(target, heard)
        t_tokens == _tokenize(target)
        h_tokens == _tokenize(heard)
    IN  (IF mism # <<>>
         THEN <<Line("accents", SubSeq(mism, 1, Min(3, Len(mism))))>> ELSE <<>>)
        \o (IF /\ Len(h_tokens) # 0 /\ Len(t_tokens) # 0
               /\ h_tokens[1] = <<"j", "e">>
               /\ t_tokens[1] = <<"j", "rq", "a", "i">>
            THEN <<Line("jai", <<>>)>> ELSE <<>>)
        \o (IF \E t \in LiaisonWords : Contains(target, t)
            THEN <<Line("liaisons", <<>>)>> ELSE <<>>)

\* The same as Returned for check_pronunciation, with what was heard.
Checked(heard, resp) == [op |-> "check_pronunciation", heard |-> heard, resp |-> resp]

\* topic arguments of give_sentence: none, a topic of the phrasebank, another
TopicInputs == {<<>>, <<"H", "o", "t", "e", "l">>, <<"z", "o", "o">>}

\* heard arguments of check_pronunciation: a sentence of nine, four or five
\* words cut before any of its spaces and quotation marks, or written in
\* lower case without accents
HeardOf(s) ==
    {SubSeq(s, 1, m) :
        m \in {0, Len(s)} \cup {i - 1 : i \in {j \in 1..Len(s) : s[j] \in {" ", "rq"}}}}
       \cup {lower(_strip_accents(s))}

HeardInputs == UNION {HeardOf(s) : s \in {P_cafe_1, P_cafe_3, P_travel_3}}

give_sentence(topic) ==
    LET tp == lower(IF topic # <<>> THEN topic ELSE SelfTopic)
    IN  \E t \in (IF tp \in DOMAIN PHRASES THEN {tp} ELSE ROLEPLAY_TOPICS) :
          \E fr \in Range(PHRASES[t]) :
             /\ pron_target' = fr
             /\ last' = Returned("give_sentence", <<Line("repeat", fr), Line("theme", t)>>)
             /\ UNCHANGED <<clock, vocab, state_file, export_file, quiz_queue, quiz_current, quiz_direction,
                            graded, probe, disk, memory>>

\* A check_pronunciation that uses the target up.
check_pronunciation_once(heard) ==
    IF pron_target = NoTarget
    THEN /\ last' = Checked(heard, <<Line("no_target", <<>>)>>)
         /\ UNCHANGED <<clock, vocab, state_file, export_file, quiz_queue, quiz_current, quiz_direction,
                        graded, probe, disk, memory, pron_target>>
    ELSE LET w == _wer(pron_target, heard)
             tips == Tips(pron_target, heard)
         IN  /\ last' = Checked(heard,
                           <<Line(Level(w), <<>>), Line("score", <<Score(w), Hundredths(w)>>)>>
                              \o (IF tips # <<>> THEN tips ELSE <<Line("no_tip", <<>>)>>))
             /\ pron_target' = NoTarget
             /\ UNCHANGED <<clock, vocab, state_file, export_file, quiz_queue, quiz_current, quiz_direction,
                            graded, probe, disk, memory>>

check_pronunciation(heard) ==
    IF pron_target = NoTarget
    THEN /\ last' = Checked(heard, <<Line("no_target", <<>>)>>)
         /\ UNCHANGED <<clock, vocab, state_file, export_file, quiz_queue, quiz_current, quiz_direction,
                        graded, probe, disk, memory, pron_target>>
    ELSE LET w == _wer(pron_target, heard)
             tips == Tips(pron_target, heard)
         IN  /\ last' = Checked(heard,
                           <<Line(Level(w), <<>>), Line("score", <<Score(w), Hundredths(w)>>)>>
                              \o (IF tips # <<>> THEN tips ELSE <<Line("no_tip", <<>>)>>))
             /\ UNCHANGED <<clock, vocab, state_file, export_file, quiz_queue, quiz_current, quiz_direction,
                            graded, probe, disk, memory, pron_target>>

PronNext ==
    \/ \E topic \in TopicInputs : give_sentence(topic)
    \/ \E heard \in HeardInputs : check_pronunciation(heard)

SpecPron == Init /\ [][PronNext]_vars

-----------------------------------------------------------------------------
(* Direct calls of _wer                                                    *)

\* Strings without a word token
S_digits == <<"4", "2">>
S_mark == <<" ", "?">>

RefInputs == Sentences \cup {<<>>, S_digits, S_mark}

HypInputs == HeardInputs \cup {S_digits}

wer_call(ref, hyp) ==
    /\ probe' = [fn |-> "_wer", args |-> <<ref, hyp>>, out |-> _wer(ref, hyp)]
    /\ UNCHANGED tutor

WerCalls == \E ref \in RefInputs, hyp \in HypInputs : wer_call(ref, hyp)

SpecWer == Init /\ [][WerCalls]_vars

-----------------------------------------------------------------------------
(* The quiz on a disk that fails: between two tool calls the disk may      *)
(* start or stop refusing writes                                           *)

DiskChanges ==
    /\ \E d \in DiskStates : d # disk /\ disk' = d
    /\ last' = Returned("disk", <<>>)
    /\ UNCHANGED <<clock, vocab, state_file, export_file, quiz_queue, quiz_current,
                   quiz_direction, graded, probe, memory, pron_target>>

PersistNext ==
    \/ DiskChanges
    \/ Tick
    \/ add_vocab(W_chat, T_cat)
    \/ \E direction \in Directions : start_quiz(MaxVocab, direction)
    \/ \E user_answer \in SessionAnswers :
          /\ quiz_current # None => graded < MaxGraded
          /\ answer_quiz(user_answer)

SpecPersist == Init /\ [][PersistNext]_vars

-----------------------------------------------------------------------------
(* Runs in which a first session is started at the first clock reading and *)
(* start_quiz is called later only while a question is outstanding         *)

RestartNext ==
    \/ Tick
    \/ \E p \in VocabInputs : add_vocab(p[1], p[2])
    \/ \E count \in Counts, direction \in Directions :
          /\ quiz_current = None => clock = FirstReading
          /\ start_quiz(count, direction)
    \/ next_question
    \/ \E user_answer \in SessionAnswers :
          /\ quiz_current # None => graded < MaxGraded
          /\ answer_quiz(user_answer)

SpecRestart == Init /\ [][RestartNext]_vars

-----------------------------------------------------------------------------
(* Stored data with timestamps that do not parse: due_words in the tutor   *)
(* and the daily script scripts/srs_daily.py, which reads the state file   *)

\* The vocabularies of state files in which a next_due was damaged.
StoredFiles ==
    { <<[SavedItem(<<W_cafe, T_cafe>>, 2, StartClock) EXCEPT !.next_due = Malformed],
        SavedItem(<<W_chat, T_cat>>, 1, StartClock)>>,
      <<SavedItem(<<W_chat, T_cat>>, 3, StartClock - timedelta(4)),
        [SavedItem(<<W_cafe, T_cafe>>, 3, StartClock) EXCEPT !.next_due = Malformed]>>,
      <<SavedItem(<<W_chat, T_cat>>, 1, StartClock),
        SavedItem(<<W_cafe, T_cafe>>, 2, StartClock - timedelta(2))>> }

InitStored ==
    /\ clock = FirstReading
    /\ vocab \in StoredFiles
    /\ quiz_queue = <<>>
    /\ quiz_current = None
    /\ quiz_direction = D_en2fr
    /\ graded = 0
    /\ last = Returned("init", <<>>)
    /\ probe = NoProbe
    /\ pron_target = NoTarget
    /\ state_file = InSync(0)
    /\ export_file = NoFile
    /\ disk = "ok"
    /\ conversations = <<>>
    /\ memory_file = NoFile

\* The order of two next_due strings.  Timestamps of one format are ordered
\* as their times; a damaged one is taken to begin with a letter, which
\* comes after every digit.
StringLeq(a, b) == b = Malformed \/ (a # Malformed /\ a <= b)

\* due_words: the sort key (box, next_due) of item j is at most that of i.
DueKeyLeq(v, j, i) ==
    \/ v[j].box < v[i].box
    \/ v[j].box = v[i].box /\ StringLeq(v[j].next_due, v[i].next_due)

\* due_idxs.sort(key = ...): a stable sort of the first n entries of idxs.
RECURSIVE InsertByDueKey(_, _, _)
InsertByDueKey(v, done, i) ==
    IF done = <<>> THEN <<i>>
    ELSE IF DueKeyLeq(v, done[Len(done)], i) THEN Append(done, i)
    ELSE Append(InsertByDueKey(v, SubSeq(done, 1, Len(done) - 1), i), done[Len(done)])

RECURSIVE SortedByDueKey(_, _, _)
SortedByDueKey(v, idxs, n) ==
    IF n = 0 THEN <<>> ELSE InsertByDueKey(v, SortedByDueKey(v, idxs, n - 1), idxs[n])

\* top_k arguments of due_words
TopKInputs == {0, 5}

\* What due_words returned, with the top_k it was called with.
Listed(top_k, resp) == [op |-> "due_words", top_k |-> top_k, resp |-> resp]

due_words(top_k) ==
    LET due_idxs == _due_indices(vocab, clock)
        sorted == SortedByDueKey(vocab, due_idxs, Len(due_idxs))
        shown == SubSeq(sorted, 1, Min(Len(sorted), Max(1, top_k)))
    IN  /\ last' = Listed(top_k,
                      IF due_idxs = <<>>
                      THEN <<Line("nothing_due", <<>>)>>
                      ELSE <<Line("due_now", Len(shown))>>
                              \o [k \in 1..Len(shown) |->
                                    Line("word", <<vocab[shown[k]].word,
                                                   vocab[shown[k]].translation,
                                                   vocab[shown[k]].box>>)])
        /\ UNCHANGED <<clock, vocab, state_file, export_file, quiz_queue, quiz_current,
                       quiz_direction, graded, probe, disk, memory, pron_target>>

\* srs_daily.compute_due: the items of the stored vocabulary with a
\* next_due that is there, parses and is not after now.
compute_due(v, now) ==
    SelectSeq(v, LAMBDA item :
                    /\ item.next_due # Malformed
                    /\ fromisoformat(item.next_due) <= now)

\* srs_daily.write_csv: the row of an item.
CsvRow(item) ==
    [word |-> item.word, translation |-> item.translation, example |-> item.example,
     box |-> item.box, next_due |-> item.next_due]

\* srs_daily.main, run beside the tutor: load_state, compute_due, write_csv
\* to the snapshot of the day, then the report.  Nothing in it is guarded:
\* a state file that does not parse or a write that fails ends the script
\* with a traceback.
srs_daily ==
    IF ~state_file.readable
    THEN /\ last' = Returned("srs_daily", <<Line("traceback", <<>>)>>)
         /\ UNCHANGED <<clock, vocab, state_file, export_file, quiz_queue, quiz_current,
                        quiz_direction, graded, probe, disk, memory, pron_target>>
    ELSE LET stored == StateFileContent
             due == compute_due(stored, clock)
         IN  /\ export_file' = Written(export_file, [i \in 1..Len(stored) |-> CsvRow(stored[i])])
             /\ last' = Returned("srs_daily",
                           IF disk # "ok" THEN <<Line("traceback", <<>>)>>
                           ELSE <<Line("due", due)>>)
             /\ UNCHANGED <<clock, vocab, state_file, quiz_queue, quiz_current,
                            quiz_direction, graded, probe, disk, memory, pron_target>>

StoredNext ==
    \/ Tick
    \/ \E count \in Counts, direction \in Directions : start_quiz(count, direction)
    \/ next_question
    \/ \E user_answer \in Answers :
          /\ quiz_current # None => graded < MaxGraded
          /\ answer_quiz(user_answer)
    \/ \E top_k \in TopKInputs : due_words(top_k)
    \/ srs_daily

SpecStored == InitStored /\ [][StoredNext]_vars

-----------------------------------------------------------------------------
(* ConversationMemory (voice_livekit_agent/universal_agent.py)             *)

\* s[-n:] of Python: the last n entries, all of them when n is 0.
LastEntries(s, n) ==
    IF n = 0 THEN s ELSE SubSeq(s, Max(1, Len(s) - n + 1), Len(s))

M_hello == <<"H", "e", "l", "l", "o">>
M_hi == <<"H", "i", " ", "t", "h", "e", "r", "e", "!">>
M_bye == <<"B", "y", "e">>

\* (user_msg, agent_msg) arguments of add_turn
TurnInputs == {<<M_hello, M_hi>>, <<M_bye, M_bye>>}

\* A turn as add_turn builds it at clock reading now; isoformat() without
\* timespec writes the sub-second part, so the reading itself stands for it.
Turn(user_msg, agent_msg, now) ==
    [timestamp |-> now, user |-> user_msg, agent |-> agent_msg, metadata |-> <<>>]

\* The conversations of the memory files the object may be built on: none,
\* and three turns saved by an earlier run.
MemoryFiles ==
    { <<>>,
      <<Turn(M_hello, M_hi, StartClock - 3), Turn(M_bye, M_bye, StartClock - 2),
        Turn(M_hello, M_bye, StartClock - 1)>> }

\* __init__ followed by _load
InitMemory ==
    /\ clock = FirstReading
    /\ vocab = <<>>
    /\ quiz_queue = <<>>
    /\ quiz_current = None
    /\ quiz_direction = D_en2fr
    /\ graded = 0
    /\ last = Returned("init", <<>>)
    /\ probe = NoProbe
    /\ pron_target = NoTarget
    /\ state_file = NoFile
    /\ export_file = NoFile
    /\ disk = "ok"
    /\ \E saved \in MemoryFiles :
          /\ memory_file = File(saved)
          /\ conversations = LastEntries(saved, max_turns)

\* _save: 'conversations' of the data written
_save(turns) == Written(memory_file, LastEntries(turns, max_turns))

add_turn(user_msg, agent_msg) ==
    /\ Len(conversations) < MaxCalls
    /\ conversations' = Append(conversations, Turn(user_msg, agent_msg, clock))
    /\ memory_file' = _save(conversations')
    /\ last' = Returned("add_turn", <<>>)
    /\ UNCHANGED <<clock, vocab, state_file, export_file, quiz_queue, quiz_current,
                   quiz_direction, graded, probe, disk, pron_target>>

\* Time passes, or the disk changes, between two calls.
MemoryNext ==
    \/ \E t \in {clock + 1, clock + TicksPerSec} :
          /\ t <= FirstReading + 2 * TicksPerSec
          /\ clock' = t
          /\ last' = Returned("tick", <<>>)
          /\ UNCHANGED <<vocab, state_file, export_file, quiz_queue, quiz_current,
                         quiz_direction, graded, probe, disk, memory, pron_target>>
    \/ \E d \in {"ok", "denied"} :
          /\ d # disk
          /\ disk' = d
          /\ last' = Returned("disk", <<>>)
          /\ UNCHANGED <<clock, vocab, state_file, export_file, quiz_queue, quiz_current,
                         quiz_direction, graded, probe, memory, pron_target>>
    \/ \E p \in TurnInputs : add_turn(p[1], p[2])

SpecMemory == InitMemory /\ [][MemoryNext]_vars

-----------------------------------------------------------------------------
(* UniversalAgent.unit_converter (voice_livekit_agent/universal_agent.py)  *)

\* A factor m * 10^e of the conversions table.
Factor(m, e) == [m |-> m, e |-> e]

\* conversions: the factor of each unit to the base unit of its kind.
conversions ==
    (<<"m">> :> Factor(1, 0)) @@ (<<"k", "m">> :> Factor(1, 3))
       @@ (<<"m", "i">> :> Factor(160934, -2)) @@ (<<"f", "t">> :> Factor(3048, -4))
       @@ (<<"i", "n">> :> Factor(254, -4)) @@ (<<"c", "m">> :> Factor(1, -2))
       @@ (<<"m", "m">> :> Factor(1, -3))
       @@ (<<"k", "g">> :> Factor(1, 0)) @@ (<<"g">> :> Factor(1, -3))
       @@ (<<"l", "b">> :> Factor(453592, -6)) @@ (<<"o", "z">> :> Factor(283495, -7))
       @@ (<<"L">> :> Factor(1, 0)) @@ (<<"m", "l">> :> Factor(1, -3))
       @@ (<<"g", "a", "l">> :> Factor(378541, -5))
       @@ (<<"c", "u", "p">> :> Factor(236588, -6))

\* ['c', 'f', 'k']
TemperatureUnits == {<<"c">>, <<"f">>, <<"k">>}

\* A result num / den * 10^exp, the number that the response shows to two or
\* four decimals.
Quantity(num, den, exp) == [num |-> num, den |-> den, exp |-> exp]

Converted(q) == [kind |-> "converted", result |-> q]
CannotConvert == [kind |-> "cannot_convert", result |-> Quantity(0, 1, 0)]

unit_converter(value, from_unit, to_unit) ==
    LET from_u == lower(from_unit)
        to_u == lower(to_unit)
    IN  IF from_u \in TemperatureUnits \/ to_u \in TemperatureUnits
        THEN CASE from_u = <<"c">> /\ to_u = <<"f">> ->
                     Converted(Quantity(9 * value + 160, 5, 0))
               [] from_u = <<"f">> /\ to_u = <<"c">> ->
                     Converted(Quantity(5 * (value - 32), 9, 0))
               [] from_u = <<"c">> /\ to_u = <<"k">> ->
                     Converted(Quantity(100 * value + 27315, 100, 0))
               [] from_u = <<"k">> /\ to_u = <<"c">> ->
                     Converted(Quantity(100 * value - 27315, 100, 0))
               [] from_u = <<"f">> /\ to_u = <<"k">> ->
                     Converted(Quantity(500 * (value - 32) + 9 * 27315, 900, 0))
               [] from_u = <<"k">> /\ to_u = <<"f">> ->
                     Converted(Quantity(9 * (100 * value - 27315) + 16000, 500, 0))
               [] OTHER -> CannotConvert
        ELSE IF from_u \in DOMAIN conversions /\ to_u \in DOMAIN conversions
             THEN Converted(Quantity(value * conversions[from_u].m, conversions[to_u].m,
                                     conversions[from_u].e - conversions[to_u].e))
             ELSE CannotConvert

\* from_unit and to_unit arguments: the units of the docstring, as written
\* there and in capitals, and a word that is no unit.
UnitInputs ==
    {<<"m">>, <<"k", "m">>, <<"K", "M">>, <<"m", "i">>, <<"f", "t">>, <<"i", "n">>,
     <<"k", "g">>, <<"l", "b">>, <<"o", "z">>, <<"g">>,
     <<"C">>, <<"F">>, <<"K">>, <<"c">>,
     <<"L">>, <<"g", "a", "l">>, <<"m", "l">>, <<"c", "u", "p">>,
     <<"x", "y", "z">>}

\* value arguments
ValueInputs == {0, 1, 100}

unit_converter_call(value, from_unit, to_unit) ==
    /\ probe' = [fn |-> "unit_converter", args |-> <<value, from_unit, to_unit>>,
                 out |-> unit_converter(value, from_unit, to_unit)]
    /\ UNCHANGED tutor

UnitConverterCalls ==
    \E value \in ValueInputs, from_unit \in UnitInputs, to_unit \in UnitInputs :
       unit_converter_call(value, from_unit, to_unit)

SpecUnits == Init /\ [][UnitConverterCalls]_vars

-----------------------------------------------------------------------------
(* Vocabulary, notions the properties below are stated with                *)

Items == 1..Len(vocab)

\* The response lines of the last call, by kind.
Verdicts == {"well_done", "almost"}
Prompts == {"to_french", "to_english"}

\* The last call was an answer_quiz that graded an item.
JustGraded == last.op = "answer_quiz" /\ last.resp[1].kind \in Verdicts

\* The classic unit-cost edit distance, by its recurrence on prefixes.
RECURSIVE EditDistance(_, _)
EditDistance(a, b) ==
    IF a = <<>> THEN Len(b)
    ELSE IF b = <<>> THEN Len(a)
    ELSE LET ra == SubSeq(a, 1, Len(a) - 1)
             rb == SubSeq(b, 1, Len(b) - 1)
         IN  Min(Min(EditDistance(ra, b) + 1, EditDistance(a, rb) + 1),
                 EditDistance(ra, rb) + (IF a[Len(a)] = b[Len(b)] THEN 0 ELSE 1))

\* The delay table as the specification states it.
StatedDelay(box) ==
    CASE box <= 1 -> 1 [] box = 2 -> 2 [] box = 3 -> 4 [] box = 4 -> 7 [] OTHER -> 15

\* The items due at the clock reading now: next_due <= now.
DueItems(now) == {i \in Items : vocab[i].next_due * TicksPerSec <= now}

-----------------------------------------------------------------------------
(* C1: in every reachable state, whatever calls were made and whether the  *)
(* vocabulary was loaded or added, every item's box is an integer in 1..5. *)

C1_BoxInRange == \A i \in Items : vocab[i].box \in 1..5

\* An item loaded in box 5 has been answered correctly once more.
C1_Witness ==
    /\ JustGraded
    /\ \E i \in Items : /\ vocab[i].box = 5
                        /\ Len(vocab[i].history) = 5
                        /\ vocab[i].history[5].ok

-----------------------------------------------------------------------------
(* C2: when answer_quiz grades the current item, an accepted answer sets   *)
(* its box to min(5, old box + 1), strictly more than before unless it was *)
(* 5, and a rejected answer sets its box to 1.                             *)

C2_Graded ==
    (last'.op = "answer_quiz" /\ quiz_current # None) =>
        LET old == vocab[quiz_current].box
            new == vocab'[quiz_current].box
        IN  /\ last'.resp[1].kind \in Verdicts
            /\ last'.resp[1].kind = "well_done" =>
                  /\ new = Min(5, old + 1)
                  /\ old < 5 => new > old
                  /\ old = 5 => new = 5
            /\ last'.resp[1].kind = "almost" => new = 1

C2_BoxUpdate == [][C2_Graded]_vars

\* An item loaded in box 5 has been answered wrongly and is back in box 1.
C2_Witness ==
    /\ JustGraded
    /\ last.resp[1].kind = "almost"
    /\ \E i \in Items : /\ vocab[i].box = 1
                        /\ Len(vocab[i].history) = 5
                        /\ ~vocab[i].history[5].ok

-----------------------------------------------------------------------------
(* C3 (as stated): each item's next_due equals the clock reading of its    *)
(* most recent scheduling event (creation by add_vocab, grading by         *)
(* answer_quiz) plus delay_days[box]; nothing else writes next_due or box. *)

\* Item i was created or rescheduled by the step.
Scheduled(i) == i > Len(vocab) \/ vocab'[i] # vocab[i]

\* Only add_vocab creates an item, only answer_quiz changes one, and then
\* only the current one.
C3_OnlyScheduler ==
    /\ Len(vocab') >= Len(vocab)
    /\ \A i \in 1..Len(vocab') :
          /\ i > Len(vocab) => last'.op = "add_vocab"
          /\ (i <= Len(vocab) /\ vocab'[i] # vocab[i]) =>
                (last'.op = "answer_quiz" /\ i = quiz_current)

C3_ExactDue ==
    [][/\ C3_OnlyScheduler
       /\ \A i \in 1..Len(vocab') :
             Scheduled(i) =>
                vocab'[i].next_due * TicksPerSec
                   = clock + StatedDelay(vocab'[i].box) * DayTicks]_vars

(* C3 (amended): each item's next_due is the timestamp, to the whole       *)
(* second, of the clock reading of its most recent scheduling event plus   *)
(* delay_days[box]; nothing else writes next_due or box.                   *)

C3_DueFromBox ==
    [][/\ C3_OnlyScheduler
       /\ \A i \in 1..Len(vocab') :
             Scheduled(i) =>
                LET due == clock + StatedDelay(vocab'[i].box) * DayTicks
                    nd == vocab'[i].next_due * TicksPerSec
                IN  nd <= due /\ due < nd + TicksPerSec]_vars

\* A graded item sits in box 3 or higher, due four days or more after the
\* grading, and an item added in this run is due a day after its creation.
C3_Witness ==
    /\ JustGraded
    /\ \E i \in Items :
          /\ vocab[i].box >= 3
          /\ vocab[i].history # <<>>
          /\ vocab[i].history[Len(vocab[i].history)].t = clock \div TicksPerSec
          /\ vocab[i].next_due * TicksPerSec >= clock - TicksPerSec + 4 * DayTicks

-----------------------------------------------------------------------------
(* C4 (as stated): for every integer box, in range or not, and every clock *)
(* reading now, _next_due(box, now) is exactly now plus                    *)
(* delay_days[clamp(box, 1, 5)] days.                                      *)

Clamp(box) == IF box < 1 THEN 1 ELSE IF box > 5 THEN 5 ELSE box

C4_ExactNextDue ==
    probe.fn = "_next_due" =>
        probe.out * TicksPerSec
           = probe.args[2] + StatedDelay(Clamp(probe.args[1])) * DayTicks

(* C4 (amended): _next_due(box, now) is the timestamp, to the whole        *)
(* second, of now plus delay_days[clamp(box, 1, 5)] days: the sub-second   *)
(* part of now is dropped, and the result is exact when now has none.      *)

C4_NextDue ==
    probe.fn = "_next_due" =>
        LET due == probe.args[2] + StatedDelay(Clamp(probe.args[1])) * DayTicks
            out == probe.out * TicksPerSec
        IN  /\ out <= due /\ due < out + TicksPerSec
            /\ probe.args[2] % TicksPerSec = 0 => out = due

\* _next_due was called on a box above the range, at a clock reading
\* that is not a whole second.
C4_Witness ==
    /\ probe.fn = "_next_due"
    /\ probe.args[1] = 9
    /\ probe.args[2] % TicksPerSec # 0
    /\ probe.out = (probe.args[2] + 15 * DayTicks) \div TicksPerSec

-----------------------------------------------------------------------------
(* C5: answer_quiz accepts an answer exactly when the token edit distance  *)
(* between the gold tokens and the answer tokens, over max(1, number of    *)
(* gold tokens), is at most 0.34: 100 * distance <= 34 * max(1, |gold|).   *)

\* The normalized tokens of a text: accents stripped, lower case.
TokensOf(text) == _tokenize(lower(_strip_accents(text)))

\* The answer that the step graded, as the history of the item records it.
AnswerGraded ==
    LET h == vocab'[quiz_current].history IN h[Len(h)].input

\* The gold string of the current item in the direction in force.
GoldOfCurrent ==
    IF quiz_direction = D_en2fr
    THEN vocab[quiz_current].word ELSE vocab[quiz_current].translation

C5_Threshold ==
    [][(last'.op = "answer_quiz" /\ quiz_current # None) =>
          LET gold == TokensOf(GoldOfCurrent)
              dist == EditDistance(gold, TokensOf(AnswerGraded))
          IN  (last'.resp[1].kind = "well_done")
                 <=> (100 * dist <= 34 * Max(1, Len(gold)))]_vars

\* An answer with one token wrong out of the three of the gold phrase has
\* been accepted.
C5_Witness ==
    /\ JustGraded
    /\ last.resp[1].kind = "well_done"
    /\ Len(TokensOf(last.resp[1].text)) = 3
    /\ \E i \in Items :
          /\ vocab[i].history # <<>>
          /\ vocab[i].word = last.resp[1].text
          /\ EditDistance(TokensOf(vocab[i].word),
                          TokensOf(vocab[i].history[Len(vocab[i].history)].input)) = 1

-----------------------------------------------------------------------------
(* C6: for every item and direction, an answer that is empty or has no     *)
(* word token is graded, fails the threshold, and resets the current item  *)
(* to box 1 with a correct = false history entry.                          *)

C6_EmptyAnswerResets ==
    [][(/\ last'.op = "answer_quiz"
        /\ quiz_current # None
        /\ TokensOf(AnswerGraded) = <<>>) =>
          LET h == vocab'[quiz_current].history
          IN  /\ last'.resp[1].kind = "almost"
              /\ vocab'[quiz_current].box = 1
              /\ Len(h) = Len(vocab[quiz_current].history) + 1
              /\ ~h[Len(h)].ok]_vars

-----------------------------------------------------------------------------
(* C7: start_quiz on an empty vocabulary returns the "no vocabulary"       *)
(* message and leaves the session (queue, current question, direction)     *)
(* and the vocabulary as they were, whatever count and direction it is     *)
(* given.                                                                  *)

C7_NoVocabulary ==
    [][(last'.op = "start_quiz" /\ vocab = <<>>) =>
          /\ last'.resp = <<Line("no_vocabulary", <<>>)>>
          /\ UNCHANGED <<vocab, quiz_queue, quiz_current, quiz_direction>>]_vars

\* start_quiz has been refused on an empty vocabulary.
C7_Witness ==
    /\ last.op = "start_quiz"
    /\ last.resp[1].kind = "no_vocabulary"
    /\ vocab = <<>>
    /\ quiz_direction = D_en2fr

-----------------------------------------------------------------------------
(* C8: the questions start_quiz selects (the one it serves and the queue   *)
(* it leaves) are among the items with next_due <= now whenever there is   *)
(* such an item; only when none is due are they drawn from all items.      *)

Selected(current, queue) == (IF current = None THEN {} ELSE {current}) \cup Range(queue)

-----------------------------------------------------------------------------
(* C9: on a non-empty vocabulary and for every count, zero and negative    *)
(* ones included, start_quiz selects max(1, min(count, |candidates|))      *)
(* questions and serves the first: a question is outstanding and the queue *)
(* holds the others.                                                       *)

CandidateCount ==
    IF DueItems(clock) = {} THEN Len(vocab) ELSE Cardinality(DueItems(clock))

C9_Selection ==
    [][(last'.op = "start_quiz" /\ vocab # <<>>) =>
          LET k == Max(1, Min(last'.count, CandidateCount))
          IN  /\ quiz_current' # None
              /\ last'.resp[1].kind \in Prompts
              /\ Len(quiz_queue') = k - 1
              /\ Cardinality(Selected(quiz_current', quiz_queue')) = k]_vars

\* start_quiz was called with a count of zero or less while several items
\* were candidates: one question is served and the queue is empty.
C9_Witness ==
    /\ last.op = "start_quiz"
    /\ last.count <= 0
    /\ CandidateCount >= 2
    /\ quiz_current # None
    /\ quiz_queue = <<>>
    /\ last.resp[1].kind \in Prompts

-----------------------------------------------------------------------------
(* C10: next_question on an empty queue sets current to None and returns   *)
(* the "quiz finished" message; on a non-empty queue it takes the front    *)
(* element as the current question and leaves the rest in order.           *)

C10_NextQuestion ==
    [][last'.op = "next_question" =>
          /\ UNCHANGED <<vocab, quiz_direction>>
          /\ IF quiz_queue = <<>>
             THEN /\ quiz_current' = None
                  /\ quiz_queue' = <<>>
                  /\ last'.resp = <<Line("finished", <<>>)>>
             ELSE /\ quiz_current' = quiz_queue[1]
                  /\ quiz_queue' = SubSeq(quiz_queue, 2, Len(quiz_queue))
                  /\ last'.resp[1].kind \in Prompts]_vars

\* next_question has taken the front of a queue of two: one is left.
C10_Witness ==
    /\ last.op = "next_question"
    /\ quiz_current # None
    /\ Len(quiz_queue) = 1
    /\ last.resp[1].kind \in Prompts

-----------------------------------------------------------------------------
(* C11: answer_quiz called while no question is outstanding returns the    *)
(* "no active question" message and changes nothing: no item's box,        *)
(* next_due or history, and neither the queue, current nor the direction.  *)

C11_NoQuestion ==
    [][(last'.op = "answer_quiz" /\ quiz_current = None) =>
          /\ last'.resp = <<Line("no_question", <<>>)>>
          /\ UNCHANGED <<vocab, quiz_queue, quiz_current, quiz_direction>>]_vars

\* answer_quiz has been refused after a quiz in the fr2en direction ended,
\* on a vocabulary with a graded item.
C11_Witness ==
    /\ last.op = "answer_quiz"
    /\ last.resp[1].kind = "no_question"
    /\ quiz_current = None
    /\ quiz_direction # D_en2fr
    /\ \E i \in Items : vocab[i].history # <<>>

-----------------------------------------------------------------------------
(* C12: answer_quiz with a question outstanding advances the session after *)
(* grading, accepted or rejected: the new current is the previous front of *)
(* the queue, or, when the queue was empty, current becomes None and the   *)
(* response ends with the "quiz finished" message.                         *)

C12_Advances ==
    [][(last'.op = "answer_quiz" /\ quiz_current # None) =>
          /\ Len(last'.resp) = 2
          /\ last'.resp[1].kind \in Verdicts
          /\ IF quiz_queue = <<>>
             THEN /\ quiz_current' = None
                  /\ quiz_queue' = <<>>
                  /\ last'.resp[2] = Line("finished", <<>>)
             ELSE /\ quiz_current' = quiz_queue[1]
                  /\ quiz_queue' = Tail(quiz_queue)
                  /\ last'.resp[2].kind \in Prompts]_vars

\* A rejected answer has been followed by the next question of the queue.
C12_Witness ==
    /\ JustGraded
    /\ last.resp[1].kind = "almost"
    /\ quiz_current # None
    /\ last.resp[2].kind \in Prompts
    /\ \E i \in Items \ {quiz_current} :
          /\ vocab[i].history # <<>>
          /\ ~vocab[i].history[Len(vocab[i].history)].ok
          /\ vocab[i].history[Len(vocab[i].history)].t = isoformat(clock)

-----------------------------------------------------------------------------
(* C13: every quiz session terminates.  Each graded answer lowers the      *)
(* number of remaining questions (the outstanding one and the queue) by    *)
(* exactly one, so that the n questions start_quiz selected are used up by *)
(* n answers and the session is back to Idle (queue empty, current None);  *)
(* nothing but start_quiz adds a question, and a graded item is not asked  *)
(* again in the same session.                                              *)

Remaining(current, queue) == Len(queue) + (IF current = None THEN 0 ELSE 1)

Idle(current, queue) == current = None /\ queue = <<>>

C13_SessionEnds ==
    [][/\ Cardinality(Selected(quiz_current', quiz_queue'))
             = Remaining(quiz_current', quiz_queue')
       /\ (last'.op = "answer_quiz" /\ quiz_current # None) =>
             /\ Remaining(quiz_current', quiz_queue')
                   = Remaining(quiz_current, quiz_queue) - 1
             /\ quiz_current \notin Selected(quiz_current', quiz_queue')
             /\ Remaining(quiz_current, quiz_queue) = 1
                   => Idle(quiz_current', quiz_queue')
       /\ last'.op # "start_quiz" =>
             /\ Selected(quiz_current', quiz_queue')
                   \subseteq Selected(quiz_current, quiz_queue)
             /\ Len(quiz_queue') <= Len(quiz_queue)]_vars

\* A session of three questions has been brought back to Idle by three
\* answers, each item graded once at the current clock reading.
C13_Witness ==
    /\ JustGraded
    /\ last.resp[2].kind = "finished"
    /\ Idle(quiz_current, quiz_queue)
    /\ graded = 3
    /\ Len(vocab) = 3
    /\ \A i \in Items :
          /\ vocab[i].history # <<>>
          /\ vocab[i].history[Len(vocab[i].history)].t = isoformat(clock)

-----------------------------------------------------------------------------
(* C14: for every served question the prompt and the gold answer are the   *)
(* two opposite fields of the current item: in direction "en2fr" the       *)
(* prompt shows the translation and the word is expected; in any other     *)
(* direction the prompt shows the word and the translation is expected.    *)
(* The direction in force at grading is the one the question was served    *)
(* with: only start_quiz, which serves a new question, changes it.         *)

\* The prompt the claim states for item it in the given direction.
StatedPrompt(it, direction) ==
    IF direction = D_en2fr
    THEN Line("to_french", it.translation) ELSE Line("to_english", it.word)

\* The field the claim states as the expected answer.
StatedGold(it, direction) ==
    IF direction = D_en2fr THEN it.word ELSE it.translation

C14_OppositeSides ==
    [][/\ (last'.op \in {"start_quiz", "next_question", "answer_quiz"}
             /\ quiz_current' # None) =>
             last'.resp[Len(last'.resp)]
                = StatedPrompt(vocab'[quiz_current'], quiz_direction')
       /\ (last'.op = "answer_quiz" /\ quiz_current # None) =>
             LET gold == StatedGold(vocab[quiz_current], quiz_direction)
             IN  /\ last'.resp[1].text = gold
                 /\ TokensOf(AnswerGraded) = TokensOf(gold)
                       => last'.resp[1].kind = "well_done"
                 /\ last'.resp[1].kind = "well_done"
                       => 100 * EditDistance(TokensOf(gold), TokensOf(AnswerGraded))
                             <= 34 * Max(1, Len(TokensOf(gold)))
       /\ last'.op # "start_quiz" => quiz_direction' = quiz_direction]_vars

\* In a direction other than en2fr, the translation of the item has been
\* given as the answer and accepted.
C14_Witness ==
    /\ JustGraded
    /\ quiz_direction # D_en2fr
    /\ last.resp[1].kind = "well_done"
    /\ \E i \in Items :
          /\ vocab[i].history # <<>>
          /\ vocab[i].history[Len(vocab[i].history)].t = isoformat(clock)
          /\ last.resp[1].text = vocab[i].translation
          /\ vocab[i].translation # vocab[i].word
          /\ TokensOf(vocab[i].history[Len(vocab[i].history)].input)
                = TokensOf(vocab[i].translation)
          /\ TokensOf(vocab[i].translation) # <<>>

-----------------------------------------------------------------------------
(* C15: for all token lists a and b, the empty ones included,              *)
(* _levenshtein(a, b) is the unit-cost edit distance of the standard       *)
(* recurrence; it is 0 exactly when a = b, the same for (b, a), and        *)
(* len(b) when a is empty.                                                 *)

C15_Levenshtein ==
    probe.fn = "_levenshtein" =>
        LET a == probe.args[1]
            b == probe.args[2]
        IN  /\ probe.out = EditDistance(a, b)
            /\ probe.out >= 0
            /\ (probe.out = 0) <=> (a = b)
            /\ probe.out = _levenshtein(b, a)
            /\ a = <<>> => probe.out = Len(b)

\* _levenshtein was called on a longer and a shorter list that are one
\* deletion apart and differ at every position.
C15_Witness ==
    /\ probe.fn = "_levenshtein"
    /\ Len(probe.args[1]) = 3
    /\ Len(probe.args[2]) = 2
    /\ \A i \in 1..2 : probe.args[1][i] # probe.args[2][i]
    /\ probe.out = 1

-----------------------------------------------------------------------------
(* C16 (as stated): for all strings ref and hyp, _wer(ref, hyp) >= 0, and  *)
(* it is 0 if and only if the normalized tokens of ref equal those of hyp. *)

C16_ZeroIffEqual ==
    probe.fn = "_wer" =>
        /\ probe.out.num >= 0 /\ probe.out.den > 0
        /\ (probe.out.num = 0)
              <=> (TokensOf(probe.args[1]) = TokensOf(probe.args[2]))

(* C16 (amended): _wer(ref, hyp) >= 0, and it is 0 if and only if ref has  *)
(* no word token or the normalized tokens of ref equal those of hyp.       *)

C16_ZeroIffEqualOrEmpty ==
    probe.fn = "_wer" =>
        /\ probe.out.num >= 0 /\ probe.out.den > 0
        /\ (probe.out.num = 0)
              <=> \/ TokensOf(probe.args[1]) = <<>>
                  \/ TokensOf(probe.args[1]) = TokensOf(probe.args[2])

\* _wer was 0 for a reference without a word token and a hypothesis of
\* several words.
C16_Witness ==
    /\ probe.fn = "_wer"
    /\ probe.args[1] # <<>>
    /\ TokensOf(probe.args[1]) = <<>>
    /\ Len(TokensOf(probe.args[2])) >= 2
    /\ probe.out.num = 0

-----------------------------------------------------------------------------
(* C17: when ref has no word token, _wer(ref, hyp) is 0.0 for every hyp;   *)
(* otherwise it is the token edit distance over the number of tokens of    *)
(* ref.                                                                    *)

C17_WerValue ==
    probe.fn = "_wer" =>
        LET r == TokensOf(probe.args[1])
            h == TokensOf(probe.args[2])
        IN  IF r = <<>>
            THEN probe.out = Ratio(0, 1)
            ELSE /\ probe.out.den = Len(r)
                 /\ probe.out.num = _levenshtein(r, h)
                 /\ probe.out.num >= Len(r) - Len(h)
                 /\ probe.out.num <= Max(Len(r), Len(h))

\* _wer was one fifth: one word of a reference of five was missing.
C17_Witness ==
    /\ probe.fn = "_wer"
    /\ Len(TokensOf(probe.args[1])) = 5
    /\ Len(TokensOf(probe.args[2])) = 4
    /\ probe.out = Ratio(1, 5)

-----------------------------------------------------------------------------
(* C18: check_pronunciation gives exactly one tier, by ordered inclusive   *)
(* bounds on the word error rate: at most 0.20 "excellent", else at most   *)
(* 0.35 "good", else at most 0.50 "needs work", else "hard to              *)
(* understand"; exactly 0.20 is "excellent", just above it is "good".      *)

\* A check_pronunciation has scored what was heard against the target.
JustScored == last.op = "check_pronunciation" /\ pron_target # NoTarget

\* The word error rate of the last check.
LastWer == _wer(pron_target, last.heard)

C18_Tiers ==
    JustScored =>
        LET w == LastWer
        IN  last.resp[1].kind =
               (CASE 100 * w.num <= 20 * w.den -> "excellent"
                  [] 100 * w.num > 20 * w.den /\ 100 * w.num <= 35 * w.den -> "bien"
                  [] 100 * w.num > 35 * w.den /\ 100 * w.num <= 50 * w.den -> "correct"
                  [] 100 * w.num > 50 * w.den -> "difficile")

\* A word error rate of exactly 0.20 has been rated "excellent".
C18_Witness ==
    /\ JustScored
    /\ 5 * LastWer.num = LastWer.den
    /\ last.resp[1].kind = "excellent"

-----------------------------------------------------------------------------
(* C19: the score is round(100 * max(0, 1 - wer)), the nearest integer to  *)
(* 100 * (1 - wer) floored at 0, and lies in 0..100; a wer of 1/3 scores   *)
(* 67, a wer of 1 or more scores 0.                                        *)

\* 100 * max(0, 1 - w) to the nearest integer.
RoundedScore(w) ==
    IF w.num >= w.den THEN 0
    ELSE (200 * (w.den - w.num) + w.den) \div (2 * w.den)

C19_RoundedScore ==
    JustScored =>
        /\ last.resp[2].text[1] = RoundedScore(LastWer)
        /\ last.resp[2].text[1] \in 0..100

-----------------------------------------------------------------------------
(* C20: check_pronunciation before any give_sentence returns the "no       *)
(* target" result and changes no state; after give_sentence it scores      *)
(* against the sentence given last and leaves the target as it is.         *)

C20_Target ==
    [][/\ (last'.op = "check_pronunciation" /\ pron_target = NoTarget) =>
             /\ last'.resp = <<Line("no_target", <<>>)>>
             /\ UNCHANGED <<clock, vocab, quiz_queue, quiz_current, quiz_direction,
                            pron_target>>
       /\ (last'.op = "check_pronunciation" /\ pron_target # NoTarget) =>
             LET w == _wer(pron_target, last'.heard)
             IN  /\ pron_target' = pron_target
                 /\ last'.resp[1].kind = Level(w)
                 /\ last'.resp[2] = Line("score", <<Score(w), Hundredths(w)>>)
       /\ last'.op = "give_sentence" =>
             /\ pron_target' \in Sentences
             /\ last'.resp[1] = Line("repeat", pron_target')
       /\ last'.op # "give_sentence" => pron_target' = pron_target]_vars

\* What was heard has been scored 100 against the target, a sentence of the
\* travel topic, which is still the target.
C20_Witness ==
    /\ JustScored
    /\ pron_target = P_travel_3
    /\ last.heard # pron_target
    /\ last.resp[1].kind = "excellent"
    /\ last.resp[2].text[1] = 100

-----------------------------------------------------------------------------
(* C21: a stored item whose next_due does not parse is treated as already  *)
(* due: start_quiz selects it and due_words lists it (as far as the count  *)
(* goes), and the daily script reports it among the due items.             *)

\* The items of v with a next_due that does not parse.
Damaged(v) == {i \in 1..Len(v) : v[i].next_due = Malformed}

\* The tutor's half: start_quiz and due_words with room for every item.
C21_TutorDue ==
    /\ (last.op = "start_quiz" /\ last.count >= Len(vocab)) =>
          Damaged(vocab) \subseteq Selected(quiz_current, quiz_queue)
    /\ (last.op = "due_words" /\ last.top_k >= Len(vocab) /\ Damaged(vocab) # {}) =>
          /\ last.resp[1].kind = "due_now"
          /\ last.resp[1].text >= Cardinality(Damaged(vocab))
          /\ \A i \in Damaged(vocab) :
                \E k \in 2..Len(last.resp) : last.resp[k].text[1] = vocab[i].word

\* The script's half.
C21_ScriptDue ==
    (last.op = "srs_daily" /\ last.resp[1].kind = "due") =>
        \A i \in Damaged(StateFileContent) :
           \E k \in 1..Len(last.resp[1].text) :
              last.resp[1].text[k] = StateFileContent[i]

C21_MalformedIsDue == C21_TutorDue /\ C21_ScriptDue

-----------------------------------------------------------------------------
(* C22: scheduling does not depend on persistence.  Whatever the disk does *)
(* with the writes of _save_progress and of the export, add_vocab and      *)
(* answer_quiz leave the vocabulary and the quiz session in the state, and *)
(* return the response, that the arguments and the state in memory         *)
(* determine; a failed write raises nothing; the disk alone changes        *)
(* nothing in memory.                                                      *)

\* The state in memory that scheduling reads and writes.
InMemory == <<vocab, quiz_queue, quiz_current, quiz_direction>>

\* add_vocab(p) took the step, as far as memory and the response go.
AddedInMemory(p) ==
    /\ vocab' = Append(vocab, [word |-> strip(p[1]), translation |-> strip(p[2]),
                               example |-> <<>>, box |-> 1,
                               next_due |-> (clock + DayTicks) \div TicksPerSec,
                               history |-> <<>>])
    /\ UNCHANGED <<quiz_queue, quiz_current, quiz_direction>>
    /\ last'.resp = <<Line("added", strip(p[1]) \o strip(p[2]))>>

\* answer_quiz(a) graded the current item and served the next question, as
\* far as memory and the response go.
AnsweredInMemory(a) ==
    LET it == vocab[quiz_current]
        gold == IF quiz_direction = D_en2fr THEN it.word ELSE it.translation
        dist == _levenshtein(TokensOf(gold), TokensOf(a))
        ok == 100 * dist <= 34 * Max(1, Len(TokensOf(gold)))
        box == IF ok THEN Min(5, it.box + 1) ELSE 1
    IN  /\ vocab' = [vocab EXCEPT ![quiz_current] =
                        [it EXCEPT !.box = box,
                                   !.next_due = (clock + StatedDelay(box) * DayTicks)
                                                   \div TicksPerSec,
                                   !.history = Append(@, [t |-> clock \div TicksPerSec,
                                                          ok |-> ok, input |-> a])]]
        /\ quiz_direction' = quiz_direction
        /\ quiz_current' = IF quiz_queue = <<>> THEN None ELSE Head(quiz_queue)
        /\ quiz_queue' = IF quiz_queue = <<>> THEN <<>> ELSE Tail(quiz_queue)
        /\ Len(last'.resp) = 2
        /\ last'.resp[1] = Line(IF ok THEN "well_done" ELSE "almost", gold)
        /\ last'.resp[2].kind \in Prompts \cup {"finished"}

C22_PersistenceFree ==
    [][/\ last'.op = "add_vocab" => AddedInMemory(<<W_chat, T_cat>>)
       /\ (last'.op = "answer_quiz" /\ quiz_current # None) =>
             \E a \in Answers : AnsweredInMemory(a)
       /\ last'.op = "disk" => UNCHANGED InMemory]_vars

\* An answer has been graded and the next question served while the disk
\* refused the write: the state file is behind the vocabulary in memory.
C22_Witness ==
    /\ JustGraded
    /\ disk # "ok"
    /\ state_file.readable /\ StateFileContent # vocab
    /\ quiz_current # None
    /\ \E i \in Items : vocab[i].history # <<>> /\ vocab[i].box = 1

-----------------------------------------------------------------------------
(* C23: ConversationMemory keeps only the last max_turns turns: after any  *)
(* add_turn the conversations list in memory has at most max_turns         *)
(* entries, the most recent turns in order, the last one being the turn    *)
(* just added.                                                             *)

C23_KeepsLastTurns ==
    [][last'.op = "add_turn" =>
          /\ conversations' # <<>>
          /\ Len(conversations') <= max_turns
          /\ LET added == conversations'[Len(conversations')]
                 all == Append(conversations, added)
             IN  /\ added.timestamp = clock
                 /\ conversations' = SubSeq(all, Max(1, Len(all) - max_turns + 1), Len(all))]_vars

-----------------------------------------------------------------------------
(* C24: unit_converter refuses to convert between units of different       *)
(* categories (length, weight, volume, temperature), such as kg to km: it  *)
(* returns the "Cannot convert" message and no number.                     *)

\* The categories of the docstring, by the unit in small letters.
Category(unit) ==
    LET u == lower(unit)
    IN  CASE u \in {<<"m">>, <<"k", "m">>, <<"m", "i">>, <<"f", "t">>, <<"i", "n">>} -> "length"
          [] u \in {<<"k", "g">>, <<"l", "b">>, <<"o", "z">>, <<"g">>} -> "weight"
          [] u \in {<<"c">>, <<"f">>, <<"k">>} -> "temperature"
          [] u \in {<<"l">>, <<"g", "a", "l">>, <<"m", "l">>, <<"c", "u", "p">>} -> "volume"
          [] OTHER -> "none"

C24_CrossCategoryRefused ==
    probe.fn = "unit_converter" =>
        LET from_c == Category(probe.args[2])
            to_c == Category(probe.args[3])
        IN  (from_c # "none" /\ to_c # "none" /\ from_c # to_c) =>
               probe.out.kind = "cannot_convert"

-----------------------------------------------------------------------------
(* C25: every vocabulary item has a word that is not empty once trimmed:   *)
(* add_vocab never adds an item whose trimmed word is the empty string.    *)

C25_WordNotBlank == \A i \in Items : strip(vocab[i].word) # <<>>

-----------------------------------------------------------------------------
(* C26: the history of an item is append-only and chronological.  An       *)
(* answer_quiz that grades an item appends one entry at the end of its     *)
(* history, with the timestamp of now, the verdict and the answer as it    *)
(* was given; nothing else removes, reorders or rewrites an entry; an item *)
(* made by add_vocab starts with an empty history.                         *)

\* history h is history g with entry e at the end.
Appended(h, g, e) ==
    /\ Len(h) = Len(g) + 1
    /\ \A k \in 1..Len(g) : h[k] = g[k]
    /\ h[Len(h)] = e

-----------------------------------------------------------------------------
(* C27: in every reachable state the entries of the quiz queue and the     *)
(* current question, when there is one, are indices of vocabulary items,   *)
(* no index is twice in the queue, and the current one is not in the       *)
(* queue; add_vocab in the middle of a session does not break this.        *)

C27_QueueValid ==
    /\ \A k \in 1..Len(quiz_queue) : quiz_queue[k] \in Items
    /\ quiz_current # None => quiz_current \in Items
    /\ \A j, k \in 1..Len(quiz_queue) : j # k => quiz_queue[j] # quiz_queue[k]
    /\ \A k \in 1..Len(quiz_queue) : quiz_queue[k] # quiz_current

\* A word has been added while a question was outstanding: the question is
\* that of an earlier item.
C27_Witness ==
    /\ last.op = "add_vocab"
    /\ quiz_current # None
    /\ quiz_current < Len(vocab)
    /\ vocab[Len(vocab)].history = <<>>

-----------------------------------------------------------------------------
(* C28: answer_quiz changes at most one vocabulary item, the one that was  *)
(* current at the call: box, next_due and history of every other item, and *)
(* word, translation and example of every item, are as before.             *)

C28_OneItem ==
    [][last'.op = "answer_quiz" =>
          /\ Len(vocab') = Len(vocab)
          /\ \A i \in Items :
                /\ i # quiz_current => vocab'[i] = vocab[i]
                /\ vocab'[i].word = vocab[i].word
                /\ vocab'[i].translation = vocab[i].translation
                /\ vocab'[i].example = vocab[i].example]_vars

\* Of three items the second has been graded and demoted; the first is
\* still in box 5 with its four answers.
C28_Witness ==
    /\ JustGraded
    /\ Len(vocab) = 3
    /\ vocab[1].box = 5 /\ Len(vocab[1].history) = 4
    /\ vocab[2].box = 1 /\ Len(vocab[2].history) = 2
    /\ vocab[2].word = W_chat
    /\ vocab[3].history = <<>>

-----------------------------------------------------------------------------
(* C29: start_quiz called while a question is outstanding discards the old *)
(* session: queue and current question are those of a fresh selection, and *)
(* the abandoned item is not graded.                                       *)

C29_Restart ==
    [][(last'.op = "start_quiz" /\ quiz_current # None) =>
          LET sel == <<quiz_current'>> \o quiz_queue'
              cand == IF DueItems(clock) = {} THEN Items ELSE DueItems(clock)
          IN  /\ vocab' = vocab
              /\ quiz_current' # None
              /\ Range(sel) \subseteq cand
              /\ Len(sel) = Max(1, Min(last'.count, Cardinality(cand)))
              /\ Cardinality(Range(sel)) = Len(sel)]_vars

\* start_quiz has been called after the first clock reading, that is on a
\* running session: the two questions that were due then have given way
\* to the three due now, and no item has been graded in this run.
C29_Witness ==
    /\ last.op = "start_quiz"
    /\ clock > FirstReading
    /\ quiz_current # None
    /\ Len(quiz_queue) = 2
    /\ graded = 0
    /\ Len(vocab) = 3

-----------------------------------------------------------------------------
(* C30: next_question called while a question is outstanding skips that    *)
(* question without grading it: no item changes, the skipped one is not    *)
(* put back in the queue, and the session moves on to the next item of the *)
(* queue or, when there is none, to Idle.                                  *)

C30_Skip ==
    [][(last'.op = "next_question" /\ quiz_current # None) =>
          /\ vocab' = vocab
          /\ \A k \in 1..Len(quiz_queue') : quiz_queue'[k] # quiz_current
          /\ IF quiz_queue = <<>>
             THEN /\ Idle(quiz_current', quiz_queue')
                  /\ last'.resp[1].kind = "finished"
             ELSE /\ quiz_current' = Head(quiz_queue)
                  /\ quiz_queue' = Tail(quiz_queue)
                  /\ last'.resp[1].kind \in Prompts]_vars

\* A question is outstanding only while a session lasts: with a queue that
\* is not empty there always is one.
C30_Outstanding == quiz_queue # <<>> => quiz_current # None

\* next_question has served a question from the queue, which by
\* C30_Outstanding it did while another was outstanding; nothing has been
\* graded in this run.
C30_Witness ==
    /\ last.op = "next_question"
    /\ quiz_current # None
    /\ last.resp[1].kind \in Prompts
    /\ graded = 0
    /\ \A i \in Items : vocab[i].history = <<>> \/ vocab[i].history[Len(vocab[i].history)].t < isoformat(StartClock) + 1

====
